---- MODULE Spec2Model ----
(***************************************************************************)
(* A model of the accessibility router: create_graph.py (attribute         *)
(* enrichment of the edges) and find_route.py (weight calculation, route   *)
(* search and route formatting).                                           *)
(*                                                                         *)
(* Representation of Python values:                                        *)
(*   - a str is a sequence of one-character strings;                       *)
(*   - a dict is a function whose DOMAIN is the set of keys present;       *)
(*   - the float made by float(str) is a decimal [m, e] standing for       *)
(*     m * 10^e, with m carrying no trailing zero (so equal numbers are    *)
(*     equal records);                                                     *)
(*   - lengths are whole metres, widths whole centimetres, grades and      *)
(*     slope thresholds whole percents; weights and obstacle scores are    *)
(*     fixed-point numbers counted in 1/Unit, in which every quotient the  *)
(*     model takes is exact. Rounding of IEEE doubles is not modelled.     *)
(***************************************************************************)
EXTENDS Integers, Sequences, FiniteSets, TLC

VARIABLES
    pc,                \* position of the running script
    tag,               \* create_graph: tags['width'] of the edge being enriched
    width,             \* create_graph: data['width'] of that edge
    graph,             \* the graph instance: edge (u, v, k) -> its data dict
    enriched,          \* the graph as create_graph serialised it
    before,            \* the graph as the latest call of calculate_obstacle_weights found it
    obstacles,         \* the obstacle list of the latest call
    user_preferences,  \* the preference dict of the latest call
    calls,             \* calls of calculate_obstacle_weights made on the graph instance
    argv,              \* find_route.py: the command line
    route_length,      \* find_accessible_route: route_length
    path,              \* find_accessible_route: the node path of the search
    route,             \* find_accessible_route: its return value
    exit_code          \* find_route.py: the exit status, -1 while it runs

vars == <<pc, tag, width, graph, enriched, before, obstacles, user_preferences, calls,
          argv, route_length, path, route, exit_code>>

\* Python's None
None == [type |-> "NoneType"]

(***************************************************************************)
(* str helpers                                                             *)
(***************************************************************************)
S(str) ==
    CASE str = "m" -> <<"m">>
      [] str = "cm" -> <<"c", "m">>
      [] str = "meters" -> <<"m", "e", "t", "e", "r", "s">>
      [] str = "250cm" -> <<"2", "5", "0", "c", "m">>
      [] str = "2.5 m" -> <<"2", ".", "5", " ", "m">>
      [] str = "2.5m" -> <<"2", ".", "5", "m">>
      [] str = "2.5" -> <<"2", ".", "5">>
      [] str = "2.5 meters" -> <<"2", ".", "5", " ", "m", "e", "t", "e", "r", "s">>
      [] str = "2 meters" -> <<"2", " ", "m", "e", "t", "e", "r", "s">>
      [] str = "garbage" -> <<"g", "a", "r", "b", "a", "g", "e">>
      [] str = "2e1" -> <<"2", "e", "1">>
      [] str = "1" -> <<"1">>
      [] str = "0.9" -> <<"0", ".", "9">>
      [] str = "" -> <<>>

StartsWith(s, p) == Len(s) >= Len(p) /\ SubSeq(s, 1, Len(p)) = p

EndsWith(s, p) == Len(s) >= Len(p) /\ SubSeq(s, Len(s) - Len(p) + 1, Len(s)) = p

\* str.replace(old, ''): every non-overlapping occurrence of old, left to right
RECURSIVE Remove(_, _)
Remove(s, old) ==
    IF s = <<>> THEN <<>>
    ELSE IF StartsWith(s, old) THEN Remove(SubSeq(s, Len(old) + 1, Len(s)), old)
    ELSE <<Head(s)>> \o Remove(Tail(s), old)

\* old in s
Contains(s, old) == \E i \in 1..(Len(s) - Len(old) + 1) : SubSeq(s, i, i + Len(old) - 1) = old

\* str.strip()
RECURSIVE Strip(_)
Strip(s) ==
    IF s = <<>> THEN s
    ELSE IF Head(s) = " " THEN Strip(Tail(s))
    ELSE IF s[Len(s)] = " " THEN Strip(SubSeq(s, 1, Len(s) - 1))
    ELSE s

(***************************************************************************)
(* float(str)                                                              *)
(***************************************************************************)
Digits == {"0", "1", "2", "5", "9"}

DigitValue(c) ==
    CASE c = "0" -> 0 [] c = "1" -> 1 [] c = "2" -> 2 [] c = "5" -> 5 [] c = "9" -> 9

AllDigits(s) == \A i \in 1..Len(s) : s[i] \in Digits

RECURSIVE IntValue(_)
IntValue(s) == IF s = <<>> THEN 0 ELSE IntValue(SubSeq(s, 1, Len(s) - 1)) * 10 + DigitValue(s[Len(s)])

\* the decimal m * 10^e without trailing zeros in m
RECURSIVE Norm(_, _)
Norm(m, e) ==
    IF m = 0 THEN [m |-> 0, e |-> 0]
    ELSE IF m % 10 = 0 THEN Norm(m \div 10, e + 1)
    ELSE [m |-> m, e |-> e]

IndexOf(s, c) == IF \E i \in 1..Len(s) : s[i] = c THEN CHOOSE i \in 1..Len(s) : s[i] = c /\ \A j \in 1..(i - 1) : s[j] # c ELSE 0

\* the exception float() raises, as a value
ValueError == [raised |-> "ValueError"]

\* float(s) of a str over digits, '.', 'e', blanks and letters: the decimal
\* it denotes, or ValueError. The grammar is Python's
\* [blanks] digits [. digits] [e digits] [blanks] with a digit in the mantissa.
float(s) ==
    LET t == Strip(s)
        ie == IndexOf(t, "e")
        mant == IF ie = 0 THEN t ELSE SubSeq(t, 1, ie - 1)
        expo == IF ie = 0 THEN <<>> ELSE SubSeq(t, ie + 1, Len(t))
        ip == IndexOf(mant, ".")
        whole == IF ip = 0 THEN mant ELSE SubSeq(mant, 1, ip - 1)
        frac == IF ip = 0 THEN <<>> ELSE SubSeq(mant, ip + 1, Len(mant))
        ok == /\ AllDigits(whole) /\ AllDigits(frac)
              /\ Len(whole) + Len(frac) > 0
              /\ (ie # 0 => (expo # <<>> /\ AllDigits(expo)))
    IN  IF ok THEN Norm(IntValue(whole \o frac), IntValue(expo) - Len(frac))
        ELSE ValueError

\* x / 100 of a float
DivideBy100(x) == Norm(x.m, x.e - 2)

(***************************************************************************)
(* create_graph: the width tag of one edge                                 *)
(***************************************************************************)
\* data['width'] = 2.0
DefaultWidth == Norm(2, 0)

\* width_str.replace('m', '').replace('meters', '').strip()
StripUnits(width_str) == Strip(Remove(Remove(width_str, S("m")), S("meters")))

\* the try block of the width tag: the value data['width'] ends with
ParseWidth(width_tag) ==
    LET width_str == StripUnits(width_tag)
        parsed == IF Contains(width_str, S("cm"))
                  THEN float(Remove(width_str, S("cm")))
                  ELSE float(width_str)
    IN  IF parsed = ValueError THEN DefaultWidth
        ELSE IF Contains(width_str, S("cm")) THEN DivideBy100(parsed)
        ELSE parsed

(***************************************************************************)
(* The width tags the enrichment is run on: every str of at most MaxTagLen *)
(* characters of TagAlphabet, and the tags of the documentation.           *)
(***************************************************************************)
MaxTagLen == 3

TagAlphabet == {"2", "5", ".", "c", "m", " "}

RECURSIVE StrsUpTo(_)
StrsUpTo(n) ==
    IF n = 0 THEN {<<>>}
    ELSE LET shorter == StrsUpTo(n - 1)
         IN  shorter \cup {Append(s, c) : s \in {x \in shorter : Len(x) = n - 1}, c \in TagAlphabet}

\* the tags of the comments and of the documentation
DocumentedTags ==
    {S("250cm"), S("2.5 m"), S("2.5m"), S("2.5 meters"), S("2 meters"), S("garbage"),
     S("2e1")}

\* the variables the enrichment of a width tag does not use
IdleRouting ==
    /\ graph = <<>> /\ enriched = <<>> /\ before = <<>>
    /\ obstacles = None /\ user_preferences = None /\ calls = 0
    /\ argv = None /\ route_length = 0 /\ path = <<>> /\ route = None
    /\ exit_code = -1

InitWidth ==
    /\ pc = "tagged"
    /\ (tag \in DocumentedTags \/ tag \in StrsUpTo(MaxTagLen))
    /\ width = DefaultWidth
    /\ IdleRouting

\* create_graph, lines 76-88, for one edge carrying a width tag
EnrichWidth ==
    /\ pc = "tagged"
    /\ width' = ParseWidth(tag)
    /\ pc' = "enriched"
    /\ UNCHANGED <<tag, graph, enriched, before, obstacles, user_preferences, calls,
                   argv, route_length, path, route, exit_code>>

NextWidth == EnrichWidth

SpecWidth == InitWidth /\ [][NextWidth]_vars

(***************************************************************************)
(* Python values whose type the code does not check before using them      *)
(***************************************************************************)
PyList(items) == [type |-> "list", items |-> items]

PyDict(d) == [type |-> "dict", d |-> d]

PyInt(n) == [type |-> "int", n |-> n]

\* an exception leaving a function, as a value
Raised(name) == [raised |-> name]

IsRaised(x) == DOMAIN x = {"raised"}

\* d.get(k, default)
Get(d, k, default) == IF k \in DOMAIN d THEN d[k] ELSE default

\* d[k] = v
Put(d, k, v) == [x \in DOMAIN d \cup {k} |-> IF x = k THEN v ELSE d[x]]

Abs(x) == IF x < 0 THEN -x ELSE x

Min(a, b) == IF a < b THEN a ELSE b

RECURSIVE Pow10(_)
Pow10(n) == IF n = 0 THEN 1 ELSE 10 * Pow10(n - 1)

\* a width in metres, as whole centimetres
Centimetres(x) == x.m * Pow10(x.e + 2)

\* the denominator of the fixed-point weights
Unit == 24 * 10

(***************************************************************************)
(* create_graph: the enrichment of the edges                               *)
(***************************************************************************)
problematic_surfaces == {"cobblestone", "gravel", "dirt", "sand", "mud"}

\* the body of the loop over the edges, lines 58-108: the data dict it leaves
EnrichEdge(data) ==
    LET has_tags == "tags" \in DOMAIN data
        tags == Get(data, "tags", <<>>)
        is_stairs == has_tags /\ (Get(tags, "highway", "") = "steps" \/ Get(tags, "stairs", "") = "yes")
        surface == IF has_tags THEN Get(tags, "surface", "unknown") ELSE "unknown"
        lit == IF has_tags THEN Get(tags, "lit", "unknown") ELSE "unknown"
        grade == Abs(data.grade)
    IN  [length |-> data.length,
         grade |-> data.grade,
         stairs |-> IF is_stairs THEN "yes" ELSE "no",
         width |-> IF has_tags /\ "width" \in DOMAIN tags
                   THEN Centimetres(ParseWidth(tags.width))
                   ELSE Centimetres(DefaultWidth),
         surface |-> surface,
         lit |-> lit,
         obstacle_score |->
             (IF is_stairs THEN 100 ELSE 0)
             + (IF surface \in problematic_surfaces THEN 50 ELSE 0)
             + (IF lit = "no" THEN 20 ELSE 0)
             + (IF grade > 8 THEN Min(100, grade) ELSE 0)]

\* create_graph on the raw graph of the map source
create_graph(raw) == [e \in DOMAIN raw |-> EnrichEdge(raw[e])]

(***************************************************************************)
(* find_route: calculate_obstacle_weights                                  *)
(***************************************************************************)
MAX_OBSTACLE_INFLUENCE == 100

obstacle_weights ==
    [t \in {"STAIRS", "NARROW_PATH", "STEEP_INCLINE", "UNEVEN_SURFACE", "OBSTACLE_IN_PATH",
             "POOR_LIGHTING", "CONSTRUCTION", "MISSING_RAMP", "MISSING_CROSSWALK", "OTHER"} |->
        CASE t \in {"STAIRS", "OBSTACLE_IN_PATH"} -> 1000
          [] t \in {"STEEP_INCLINE", "CONSTRUCTION"} -> 900
          [] t \in {"NARROW_PATH", "MISSING_RAMP"} -> 800
          [] t \in {"UNEVEN_SURFACE", "MISSING_CROSSWALK"} -> 700
          [] t = "POOR_LIGHTING" -> 500
          [] t = "OTHER" -> 600]

\* the stairs penalty applied whatever avoidStairs says
StairsPenaltyUnconditional(avoid_stairs, data, length) ==
    IF Get(data, "stairs", "") = "yes" THEN length * 100 * Unit ELSE 0

\* lines 88-89: the stairs penalty of an edge of that length
StairsPenalty(avoid_stairs, data, length) ==
    IF avoid_stairs /\ Get(data, "stairs", "") = "yes" THEN length * 100 * Unit ELSE 0

\* the width penalty with the difference taken the wrong way round
WidthPenaltySignSlip(minimum_width, data, length) ==
    LET edge_width == Get(data, "width", 200)
    IN  IF edge_width < minimum_width
        THEN (length * (edge_width - minimum_width) * 10 * Unit) \div minimum_width
        ELSE 0

\* lines 92-96: the width penalty
WidthPenalty(minimum_width, data, length) ==
    LET edge_width == Get(data, "width", 200)
    IN  IF edge_width < minimum_width
        THEN (length * (minimum_width - edge_width) * 10 * Unit) \div minimum_width
        ELSE 0

\* lines 99-103: the slope penalty
SlopePenalty(max_slope, data, length) ==
    LET edge_grade == Abs(Get(data, "grade", 0))
    IN  IF edge_grade > max_slope
        THEN (length * (edge_grade - max_slope) * 20 * Unit) \div max_slope
        ELSE 0

\* the body of the loop over the edges, lines 80-106
WeighEdge(data, max_slope, avoid_stairs, minimum_width) ==
    LET length == Get(data, "length", 0)
        weight == length * Unit
                  + StairsPenalty(avoid_stairs, data, length)
                  + WidthPenalty(minimum_width, data, length)
                  + SlopePenalty(max_slope, data, length)
    IN  Put(Put(data, "weight", weight), "original_obstacle_score", Get(data, "obstacle_score", 0))

\* the distance in metres from the point (lat, lng) to the edge e
Distance(lat, lng, e) ==
    CASE lng = 1 -> (IF e[1] = 1 THEN 50 ELSE IF e[1] = 2 THEN 100 ELSE 150)
      [] lng = 2 -> (IF e[1] = 2 THEN 0 ELSE IF e[1] = 1 THEN 20 ELSE 150)
      [] OTHER -> 150

RECURSIVE SetToSeq(_)
SetToSeq(set) ==
    IF set = {} THEN <<>>
    ELSE LET x == CHOOSE y \in set : TRUE IN <<x>> \o SetToSeq(set \ {x})

\* ox.distance.nearest_edges(graph, lng, lat, return_dist=True) as line 128
\* consumes it: the (edge, dist) pairs, or the exception of a point outside
\* the extent of the graph
nearest_edges(g, lng, lat) ==
    IF lat = 9 /\ lng = 9 THEN Raised("Exception")
    ELSE LET edges == SetToSeq(DOMAIN g)
         IN  [i \in 1..Len(edges) |-> <<edges[i], Distance(lat, lng, edges[i])>>]

\* one (edge, dist) pair with the penalty not decaying with the distance
ApplyPenaltyUndecayed(g, edge, dist, obstacle_weight) ==
    IF dist <= MAX_OBSTACLE_INFLUENCE
    THEN LET data == g[edge]
         IN  [g EXCEPT ![edge] =
                 Put(Put(data, "weight", data.weight + obstacle_weight * Unit),
                     "obstacle_score", Get(data, "obstacle_score", 0) + obstacle_weight)]
    ELSE g

\* lines 129-138: one (edge, dist) pair
ApplyPenalty(g, edge, dist, obstacle_weight) ==
    IF dist <= MAX_OBSTACLE_INFLUENCE
    THEN LET edge_penalty == (obstacle_weight * (MAX_OBSTACLE_INFLUENCE - dist)) \div MAX_OBSTACLE_INFLUENCE
             data == g[edge]
         IN  [g EXCEPT ![edge] =
                 Put(Put(data, "weight", data.weight + edge_penalty * Unit),
                     "obstacle_score", Get(data, "obstacle_score", 0) + edge_penalty)]
    ELSE g

\* line 128: the loop over the pairs
RECURSIVE ApplyPenalties(_, _, _)
ApplyPenalties(g, nearest, obstacle_weight) ==
    IF nearest = <<>> THEN g
    ELSE ApplyPenalties(ApplyPenalty(g, Head(nearest)[1], Head(nearest)[2], obstacle_weight),
                        Tail(nearest), obstacle_weight)

\* the body of the loop over the obstacles, lines 110-140: the graph it leaves,
\* or the exception that leaves it
ApplyObstacle(g, item) ==
    IF item.type # "dict" THEN Raised("AttributeError")
    ELSE
    LET obstacle == item.d
        obstacle_type == Get(obstacle, "obstacleType", "OTHER")
        obstacle_score == Get(obstacle, "obstacleScore", 1)
        obstacle_weight == Get(obstacle_weights, obstacle_type, 600) * obstacle_score
        location == Get(obstacle, "location", <<>>)
        lat == Get(location, "latitude", 0)
        lng == Get(location, "longitude", 0)
    IN  IF lat = 0 /\ lng = 0 THEN g
        ELSE LET nearest == nearest_edges(g, lng, lat)
             IN  IF IsRaised(nearest) THEN g
                 ELSE ApplyPenalties(g, nearest, obstacle_weight)

\* the loop over the obstacles with the try around the loop: the first failed
\* lookup ends it
RECURSIVE ApplyObstaclesTryAroundLoop(_, _)
ApplyObstaclesTryAroundLoop(g, items) ==
    IF items = <<>> THEN g
    ELSE LET item == Head(items)
             lat == Get(Get(item.d, "location", <<>>), "latitude", 0)
             lng == Get(Get(item.d, "location", <<>>), "longitude", 0)
         IN  IF item.type = "dict" /\ ~(lat = 0 /\ lng = 0) /\ IsRaised(nearest_edges(g, lng, lat))
             THEN g
             ELSE LET applied == ApplyObstacle(g, item)
                  IN  IF IsRaised(applied) THEN applied
                      ELSE ApplyObstaclesTryAroundLoop(applied, Tail(items))

\* line 109: the loop over the obstacles
RECURSIVE ApplyObstacles(_, _)
ApplyObstacles(g, items) ==
    IF items = <<>> THEN g
    ELSE LET applied == ApplyObstacle(g, Head(items))
         IN  IF IsRaised(applied) THEN applied ELSE ApplyObstacles(applied, Tail(items))

\* calculate_obstacle_weights(graph, obstacles, user_preferences): the graph it
\* returns, or the exception that leaves it
calculate_obstacle_weights(g, obs, prefs) ==
    IF prefs.type \notin {"NoneType", "dict"} THEN Raised("AttributeError")
    ELSE
    LET preferences == IF prefs.type = "NoneType" THEN <<>> ELSE prefs.d
        max_slope == Get(preferences, "maxSlope", 8)
        avoid_stairs == Get(preferences, "avoidStairs", TRUE)
        minimum_width == Get(preferences, "minimumWidth", 120)
        weighed == [e \in DOMAIN g |-> WeighEdge(g[e], max_slope, avoid_stairs, minimum_width)]
    IN  IF max_slope = 0 /\ \E e \in DOMAIN g : Abs(Get(g[e], "grade", 0)) > 0
        THEN Raised("ZeroDivisionError")
        ELSE IF obs.type = "list" THEN ApplyObstacles(weighed, obs.items)
        ELSE IF obs.type = "dict" /\ DOMAIN obs.d = {} THEN weighed
        ELSE IF obs.type = "dict" THEN Raised("AttributeError")
        ELSE Raised("TypeError")

(***************************************************************************)
(* find_route: find_accessible_route                                       *)
(***************************************************************************)
\* DEFAULT_WALKING_SPEED = 1.4 metres per second, in tenths
DEFAULT_WALKING_SPEED == 14

\* math.ceil(a / b) for b > 0
Ceil(a, b) == -((-a) \div b)

\* the duration string with the hour starting after 60 minutes
FormatDurationLateHour(length) ==
    LET duration_minutes == Ceil(length * 10, DEFAULT_WALKING_SPEED * 60)
    IN  IF duration_minutes <= 60
        THEN ToString(duration_minutes) \o " mins"
        ELSE ToString(duration_minutes \div 60) \o " hours "
             \o ToString(duration_minutes % 60) \o " mins"

\* lines 183-192: the duration string of a route of that length
FormatDuration(length) ==
    LET duration_minutes == Ceil(length * 10, DEFAULT_WALKING_SPEED * 60)
    IN  IF duration_minutes < 60
        THEN ToString(duration_minutes) \o " mins"
        ELSE ToString(duration_minutes \div 60) \o " hours "
             \o ToString(duration_minutes % 60) \o " mins"

\* lines 182-212: the result dict. distance is in hundredths of a kilometre,
\* exact for the lengths that are multiples of 10 m.
RouteResult(route_points, length, route_obstacles) ==
    [points |-> route_points,
     distance |-> (length + 5) \div 10,
     duration |-> FormatDuration(length),
     hasObstacles |-> route_obstacles,
     steps |-> <<[instructions |-> "Follow the accessible path.",
                  distance |-> ToString(length) \o " m",
                  duration |-> FormatDuration(length),
                  startLocation |-> route_points[1],
                  endLocation |-> route_points[Len(route_points)]]>>]

Point(lat, lng) == [latitude |-> lat, longitude |-> lng]

\* the nodes of the graph: the ends of its edges
Nodes(g) == {e[1] : e \in DOMAIN g} \cup {e[2] : e \in DOMAIN g}

\* graph.nodes[node]: node n lies at latitude 10 n, longitude 10 n
NodeY(n) == 10 * n

NodeX(n) == 10 * n

\* ox.distance.nearest_nodes(graph, X, Y): the node nearest to the point
nearest_nodes(g, X, Y) ==
    LET d(n) == (NodeX(n) - X) * (NodeX(n) - X) + (NodeY(n) - Y) * (NodeY(n) - Y)
    IN  CHOOSE n \in Nodes(g) : \A m \in Nodes(g) : d(n) < d(m) \/ (d(n) = d(m) /\ n <= m)

\* the keys of the parallel edges from u to v
Keys(g, u, v) == {e[3] : e \in {x \in DOMAIN g : x[1] = u /\ x[2] = v}}

\* the cost of the hop from u to v in the search: the least weight of the
\* parallel edges
HopWeight(g, u, v) ==
    CHOOSE w \in {g[<<u, v, k>>].weight : k \in Keys(g, u, v)} :
        \A k \in Keys(g, u, v) : w <= g[<<u, v, k>>].weight

RECURSIVE PathsOfLength(_, _)
PathsOfLength(g, n) ==
    IF n = 1 THEN {<<x>> : x \in Nodes(g)}
    ELSE {Append(p, v) : p \in PathsOfLength(g, n - 1), v \in Nodes(g)}

IsPath(g, p) ==
    /\ \A i, j \in 1..Len(p) : i # j => p[i] # p[j]
    /\ \A i \in 1..(Len(p) - 1) : Keys(g, p[i], p[i + 1]) # {}

\* the simple paths of the graph from source to target
Paths(g, source, target) ==
    {p \in UNION {PathsOfLength(g, n) : n \in 1..Cardinality(Nodes(g))} :
        p[1] = source /\ p[Len(p)] = target /\ IsPath(g, p)}

RECURSIVE PathWeight(_, _)
PathWeight(g, p) ==
    IF Len(p) <= 1 THEN 0
    ELSE HopWeight(g, p[1], p[2]) + PathWeight(g, Tail(p))

\* nx.shortest_path(graph, source, target, weight='weight'): the paths of
\* least total weight, any of which the search may return; none when the
\* target cannot be reached (NetworkXNoPath)
shortest_path(g, source, target) ==
    {p \in Paths(g, source, target) :
        \A q \in Paths(g, source, target) : PathWeight(g, p) <= PathWeight(g, q)}

\* graph.get_edge_data(u, v, 0)
get_edge_data(g, u, v) == IF <<u, v, 0>> \in DOMAIN g THEN g[<<u, v, 0>>] ELSE None

\* lines 172-180: route_length and route_obstacles over the hops of the path,
\* or the exception of a hop without data
RECURSIVE RouteStats(_, _)
RouteStats(g, p) ==
    IF Len(p) <= 1 THEN [route_length |-> 0, route_obstacles |-> FALSE]
    ELSE LET edge_data == get_edge_data(g, p[1], p[2])
             rest == RouteStats(g, Tail(p))
         IN  IF edge_data = None THEN Raised("AttributeError")
             ELSE IF IsRaised(rest) THEN rest
             ELSE [route_length |-> Get(edge_data, "length", 0) + rest.route_length,
                   route_obstacles |->
                       \/ Get(edge_data, "obstacle_score", 0) > 0
                       \/ Get(edge_data, "original_obstacle_score", 0) > 0
                       \/ rest.route_obstacles]

\* lines 164-214 for the path the search returned: the result, or None
RouteOf(g, p) ==
    LET route_points == [i \in 1..Len(p) |-> Point(NodeY(p[i]), NodeX(p[i]))]
        stats == RouteStats(g, p)
    IN  IF IsRaised(stats) THEN None
        ELSE RouteResult(route_points, stats.route_length, stats.route_obstacles)

(***************************************************************************)
(* The graphs, obstacle lists and preference dicts the calls are made on   *)
(***************************************************************************)
MaxObstacles == 2

\* a stairway and a longer level way side by side, then a steep, narrow, unlit gravel path
RawParallel ==
    (<<1, 2, 0>> :> [length |-> 100, grade |-> 0, tags |-> [highway |-> "steps"]])
    @@ (<<1, 2, 1>> :> [length |-> 150, grade |-> 0])
    @@ (<<2, 3, 0>> :> [length |-> 1200, grade |-> 12,
                        tags |-> [surface |-> "gravel", lit |-> "no", width |-> S("1")]])

\* a stairway that is the only way from 1 to 2
RawStairsOnly ==
    (<<1, 2, 0>> :> [length |-> 10, grade |-> 0, tags |-> [stairs |-> "yes", lit |-> "yes"]])
    @@ (<<2, 3, 0>> :> [length |-> 50, grade |-> 0])
    @@ (<<3, 1, 0>> :> [length |-> 40, grade |-> -10,
                        tags |-> [surface |-> "asphalt", width |-> S("2.5 m")]])

\* level ways; 1 -> 2 -> 3 and 1 -> 3 are equally long
RawFlat ==
    (<<1, 2, 0>> :> [length |-> 1400, grade |-> 0])
    @@ (<<2, 1, 0>> :> [length |-> 1400, grade |-> 0])
    @@ (<<2, 3, 0>> :> [length |-> 3600, grade |-> 0, tags |-> [width |-> S("250cm")]])
    @@ (<<1, 3, 0>> :> [length |-> 5000, grade |-> 0])

\* two level ways side by side, the shorter one narrow
RawNarrow ==
    (<<1, 2, 0>> :> [length |-> 200, grade |-> 4, tags |-> [width |-> S("0.9")]])
    @@ (<<1, 2, 1>> :> [length |-> 210, grade |-> 0])
    @@ (<<2, 3, 0>> :> [length |-> 0, grade |-> 0])

RawGraphs == {RawParallel, RawStairsOnly, RawFlat, RawNarrow}

ObstacleItems ==
    {[obstacleType |-> "STAIRS", obstacleScore |-> 1, location |-> Point(1, 1)],
     [obstacleType |-> "POTHOLE", location |-> Point(2, 2)],
     [obstacleType |-> "POOR_LIGHTING", obstacleScore |-> 2, location |-> Point(0, 2)],
     [obstacleType |-> "CONSTRUCTION", obstacleScore |-> 2],
     [obstacleScore |-> 2, location |-> Point(9, 9)]}

RECURSIVE ListsUpTo(_, _)
ListsUpTo(set, n) ==
    IF n = 0 THEN {<<>>}
    ELSE LET shorter == ListsUpTo(set, n - 1)
         IN  shorter \cup {Append(l, x) : l \in {y \in shorter : Len(y) = n - 1}, x \in set}

ObstacleLists == {PyList(l) : l \in ListsUpTo({PyDict(o) : o \in ObstacleItems}, MaxObstacles)}

WithKey(dicts, k, values) == dicts \cup {Put(d, k, v) : d \in dicts, v \in values}

PreferenceDicts ==
    WithKey(WithKey(WithKey({<<>>}, "maxSlope", {4, 12, -8}), "avoidStairs", BOOLEAN), "minimumWidth", {80, 240})

Preferences == {None} \cup {PyDict(d) : d \in PreferenceDicts}

\* the variables a sequence of calls on a graph instance does not use
IdleScript ==
    /\ tag = <<>> /\ width = DefaultWidth
    /\ argv = None /\ route_length = 0 /\ path = <<>> /\ route = None
    /\ exit_code = -1

InitCalls ==
    /\ pc = "deserialized"
    /\ enriched \in {create_graph(raw) : raw \in RawGraphs}
    /\ graph = enriched
    /\ before = enriched
    /\ obstacles = PyList(<<>>)
    /\ user_preferences = None
    /\ calls = 0
    /\ IdleScript

\* one call graph = calculate_obstacle_weights(graph, obs, prefs) that returns
Calculate(lists, preferences, limit) ==
    /\ calls < limit
    /\ \E obs \in lists, prefs \in preferences :
          LET returned == calculate_obstacle_weights(graph, obs, prefs)
          IN  /\ ~IsRaised(returned)
              /\ graph' = returned
              /\ obstacles' = obs
              /\ user_preferences' = prefs
    /\ before' = graph
    /\ calls' = calls + 1
    /\ pc' = "weighted"
    /\ UNCHANGED <<tag, width, enriched, argv, route_length, path, route, exit_code>>

\* a single call on the graph as deserialised
CalculateOnce == Calculate(ObstacleLists, Preferences, 1)

NextWeights == CalculateOnce

SpecWeights == InitCalls /\ [][NextWeights]_vars

(***************************************************************************)
(* find_route.py: one routing request                                      *)
(***************************************************************************)
\* create_graph.py, serialize_graph: the links of the node-link data
serialize_graph(g) ==
    LET edges == SetToSeq(DOMAIN g)
    IN  [text |-> "node_link",
         links |-> [i \in 1..Len(edges) |->
                       [source |-> edges[i][1], target |-> edges[i][2], key |-> edges[i][3],
                        data |-> g[edges[i]]]]]

\* deserialize_graph(graph_json): the graph, or None
deserialize_graph(graph_json) ==
    IF graph_json.text = "node_link"
    THEN LET links == graph_json.links
             Link(e) == CHOOSE i \in 1..Len(links) :
                            <<links[i].source, links[i].target, links[i].key>> = e
         IN  [e \in {<<links[i].source, links[i].target, links[i].key>> : i \in 1..Len(links)} |->
                 links[Link(e)].data]
    ELSE None

\* a command-line argument holding JSON text, holding other text, or not given
Json(value) == [text |-> "json", value |-> value]

NotJson == [text |-> "not json"]

NotGiven == [text |-> "not given"]

\* json.loads(text)
json_loads(arg) == IF arg.text = "json" THEN arg.value ELSE Raised("JSONDecodeError")

RequestObstacleItems ==
    {[obstacleType |-> "STAIRS", obstacleScore |-> 1, location |-> Point(1, 1)],
     [obstacleType |-> "CONSTRUCTION", obstacleScore |-> 2],
     [obstacleScore |-> 2, location |-> Point(9, 9)]}

\* the obstacle payloads of a request: the lists, and JSON of another shape
ObstaclePayloads ==
    {NotGiven, NotJson}
    \cup {Json(PyList(l)) : l \in ListsUpTo({PyDict(o) : o \in RequestObstacleItems}, MaxObstacles)}
    \cup {Json(PyInt(5)), Json(None), Json(PyDict(<<>>)),
          Json(PyDict([obstacleType |-> "STAIRS", location |-> Point(1, 1)])),
          Json(PyList(<<PyInt(5)>>))}

\* the preference payloads of a request
PreferencePayloads ==
    {NotGiven, NotJson, Json(None), Json(PyList(<<>>))}
    \cup {Json(PyDict(d)) : d \in {<<>>, [avoidStairs |-> FALSE],
                                   [maxSlope |-> 4, minimumWidth |-> 240],
                                   [maxSlope |-> 0]}}

RequestPoints == {Point(11, 10), Point(19, 21), Point(30, 29)}

Init ==
    /\ pc = "start"
    /\ enriched \in {create_graph(raw) : raw \in RawGraphs}
    /\ \E graph_json \in {serialize_graph(enriched), NotJson},
          origin \in RequestPoints, destination \in RequestPoints,
          obstacles_json \in ObstaclePayloads, preferences_json \in PreferencePayloads :
          /\ (obstacles_json = NotGiven => preferences_json = NotGiven)
          /\ argv = [graph_json |-> graph_json, origin |-> origin, destination |-> destination,
                     obstacles_json |-> obstacles_json, preferences_json |-> preferences_json]
    /\ graph = <<>>
    /\ before = <<>>
    /\ obstacles = PyList(<<>>)
    /\ user_preferences = PyDict(<<>>)
    /\ calls = 0
    /\ tag = <<>> /\ width = DefaultWidth
    /\ route_length = 0 /\ path = <<>> /\ route = None
    /\ exit_code = -1

\* main, lines 234-250: the obstacle and preference arguments
ParseArguments ==
    /\ pc = "start"
    /\ obstacles' = IF argv.obstacles_json = NotGiven \/ IsRaised(json_loads(argv.obstacles_json))
                    THEN PyList(<<>>)
                    ELSE json_loads(argv.obstacles_json)
    /\ user_preferences' =
           IF argv.preferences_json = NotGiven \/ IsRaised(json_loads(argv.preferences_json))
           THEN PyDict(<<>>)
           ELSE json_loads(argv.preferences_json)
    /\ pc' = "parsed"
    /\ UNCHANGED <<tag, width, graph, enriched, before, calls, argv, route_length, path,
                   route, exit_code>>

\* main, lines 252-255
DeserializeGraph ==
    /\ pc = "parsed"
    /\ graph' = deserialize_graph(argv.graph_json)
    /\ IF graph' = None
       THEN pc' = "exited" /\ exit_code' = 1
       ELSE pc' = "deserialized" /\ UNCHANGED exit_code
    /\ UNCHANGED <<tag, width, enriched, before, obstacles, user_preferences, calls, argv,
                   route_length, path, route>>

\* main, line 258, and lines 268-270 when the call raises
ApplyObstacleWeights ==
    /\ pc = "deserialized"
    /\ LET returned == calculate_obstacle_weights(graph, obstacles, user_preferences)
       IN  IF IsRaised(returned)
           THEN /\ pc' = "exited" /\ exit_code' = 1
                /\ UNCHANGED <<graph, before, calls>>
           ELSE /\ pc' = "weighted"
                /\ graph' = returned
                /\ before' = graph
                /\ calls' = calls + 1
                /\ UNCHANGED exit_code
    /\ UNCHANGED <<tag, width, enriched, obstacles, user_preferences, argv, route_length,
                   path, route>>

OriginNode == nearest_nodes(graph, argv.origin.longitude, argv.origin.latitude)

DestNode == nearest_nodes(graph, argv.destination.longitude, argv.destination.latitude)

\* the step without the exit on a route that is None
FindRouteWithoutExit ==
    /\ pc = "weighted"
    /\ LET paths == shortest_path(graph, OriginNode, DestNode)
       IN  IF paths = {}
           THEN /\ path' = <<>>
                /\ route' = None
                /\ UNCHANGED route_length
           ELSE \E p \in paths :
                /\ path' = p
                /\ route' = RouteOf(graph, p)
                /\ route_length' = IF IsRaised(RouteStats(graph, p)) THEN route_length
                                   ELSE RouteStats(graph, p).route_length
    /\ exit_code' = 0
    /\ pc' = "exited"
    /\ UNCHANGED <<tag, width, graph, enriched, before, obstacles, user_preferences, calls,
                   argv>>

\* main, lines 261-266, with find_accessible_route, lines 156-217
FindRoute ==
    /\ pc = "weighted"
    /\ LET paths == shortest_path(graph, OriginNode, DestNode)
       IN  IF paths = {}
           THEN /\ path' = <<>>
                /\ route' = None
                /\ UNCHANGED route_length
           ELSE \E p \in paths :
                /\ path' = p
                /\ route' = RouteOf(graph, p)
                /\ route_length' = IF IsRaised(RouteStats(graph, p)) THEN route_length
                                   ELSE RouteStats(graph, p).route_length
    /\ exit_code' = IF route' = None THEN 1 ELSE 0
    /\ pc' = "exited"
    /\ UNCHANGED <<tag, width, graph, enriched, before, obstacles, user_preferences, calls,
                   argv>>

Next == ParseArguments \/ DeserializeGraph \/ ApplyObstacleWeights \/ FindRoute

Spec == Init /\ [][Next]_vars

(***************************************************************************)
(* Claims about one call of calculate_obstacle_weights                     *)
(***************************************************************************)
Weighted == pc = "weighted"

ScoreOf(item) == Get(item.d, "obstacleScore", 1)

LatOf(item) == Get(Get(item.d, "location", <<>>), "latitude", 0)

LngOf(item) == Get(Get(item.d, "location", <<>>), "longitude", 0)

Unset(item) == LatOf(item) = 0 /\ LngOf(item) = 0

LookupFails(item) == ~Unset(item) /\ LatOf(item) = 9 /\ LngOf(item) = 9

\* the preferences the call ran with
MaxSlopeOf(prefs) == IF prefs.type = "dict" THEN Get(prefs.d, "maxSlope", 8) ELSE 8

MinimumWidthOf(prefs) == IF prefs.type = "dict" THEN Get(prefs.d, "minimumWidth", 120) ELSE 120

PositiveThresholds == MaxSlopeOf(user_preferences) > 0 /\ MinimumWidthOf(user_preferences) > 0

WeightAtLeastLength == \A e \in DOMAIN graph : graph[e].weight >= graph[e].length * Unit

OwedPenalty(item, e) ==
    LET type == Get(item.d, "obstacleType", "OTHER")
        typeWeight == IF type \in DOMAIN obstacle_weights THEN obstacle_weights[type] ELSE 600
        distance == Distance(LatOf(item), LngOf(item), e)
    IN  IF Unset(item) \/ distance >= 100 THEN 0
        ELSE (typeWeight * ScoreOf(item) * (100 - distance)) \div 100

RECURSIVE OwedPenalties(_, _)
OwedPenalties(items, e) ==
    IF items = <<>> THEN 0 ELSE OwedPenalty(Head(items), e) + OwedPenalties(Tail(items), e)

NoLookupFails == \A i \in 1..Len(obstacles.items) : ~LookupFails(obstacles.items[i])

\* C2: every obstacle not at (0,0) adds typeWeight * obstacleScore * (1 - distance/100)
\* to the weight and to the obstacle_score of each edge within 100 m of it and
\* nothing to the edges at 100 m or more; the contributions of several
\* obstacles to an edge add up. (Lists without a failing lookup; those are C5.)
C2_ObstaclePenalty ==
    (Weighted /\ NoLookupFails) =>
        \A e \in DOMAIN graph :
            LET owed == OwedPenalties(obstacles.items, e)
                unobstructed == calculate_obstacle_weights(before, PyList(<<>>), user_preferences)
            IN  /\ graph[e].weight = unobstructed[e].weight + owed * Unit
                /\ graph[e].obstacle_score = before[e].obstacle_score + owed

C2_Witness ==
    /\ Weighted /\ NoLookupFails
    /\ Len(obstacles.items) = 2
    /\ \E e \in DOMAIN graph :
          /\ OwedPenalty(obstacles.items[1], e) > 0
          /\ OwedPenalty(obstacles.items[2], e) > 0
          /\ OwedPenalty(obstacles.items[1], e) # OwedPenalty(obstacles.items[2], e)
          /\ graph[e].obstacle_score = before[e].obstacle_score + OwedPenalties(obstacles.items, e)
    /\ \E e \in DOMAIN graph :
          /\ Distance(LatOf(obstacles.items[1]), LngOf(obstacles.items[1]), e) = 100
          /\ graph[e].obstacle_score = before[e].obstacle_score + OwedPenalty(obstacles.items[2], e)

RECURSIVE WithoutFailedLookups(_)
WithoutFailedLookups(items) ==
    IF items = <<>> THEN <<>>
    ELSE IF LookupFails(Head(items)) THEN WithoutFailedLookups(Tail(items))
    ELSE <<Head(items)>> \o WithoutFailedLookups(Tail(items))

\* C5: an obstacle whose nearest-edge lookup fails is skipped alone: the graph
\* is the one the same call gives on the list without the failed obstacles, so
\* the failed one changes no weight and no obstacle_score and the others,
\* before and after it, are applied in full.
C5_FailedLookupSkipped ==
    (Weighted /\ ~NoLookupFails) =>
        graph = calculate_obstacle_weights(before, PyList(WithoutFailedLookups(obstacles.items)),
                                           user_preferences)

C5_Witness ==
    /\ Weighted
    /\ Len(obstacles.items) = 2
    /\ LookupFails(obstacles.items[1])
    /\ \E e \in DOMAIN graph :
          /\ OwedPenalty(obstacles.items[2], e) > 0
          /\ graph[e].obstacle_score = before[e].obstacle_score + OwedPenalty(obstacles.items[2], e)

(***************************************************************************)
(* Claims about a routing request                                          *)
(***************************************************************************)
\* find_accessible_route has returned
Searched == pc = "exited" /\ calls = 1

\* the nodes a walk along the edges reaches from the set
RECURSIVE ReachableFrom(_, _)
ReachableFrom(g, set) ==
    LET further == set \cup {e[2] : e \in {x \in DOMAIN g : x[1] \in set}}
    IN  IF further = set THEN set ELSE ReachableFrom(g, further)

Connected == DestNode \in ReachableFrom(graph, {OriginNode})

\* C3: when no path joins the nearest origin node to the nearest destination
\* node, find_accessible_route returns no route, None, and the request fails
\* with exit status 1; no partial route is produced.
C3_RouteNotFound ==
    (Searched /\ ~Connected) => (route = None /\ path = <<>> /\ exit_code = 1)

C3_Witness ==
    /\ Searched /\ ~Connected /\ route = None /\ exit_code = 1
    /\ OriginNode = 3 /\ DestNode = 1
    /\ obstacles.items # <<>>

\* the payload is not the JSON the interface names
MalformedObstacles ==
    \/ argv.obstacles_json = NotJson
    \/ /\ argv.obstacles_json.text = "json"
       /\ \/ argv.obstacles_json.value.type # "list"
          \/ \E i \in 1..Len(argv.obstacles_json.value.items) :
                argv.obstacles_json.value.items[i].type # "dict"

MalformedPreferences ==
    \/ argv.preferences_json = NotJson
    \/ argv.preferences_json.text = "json" /\ argv.preferences_json.value.type # "dict"

\* the edges of the serialised graph join the nearest nodes of the request
RouteExists ==
    /\ argv.graph_json.text = "node_link"
    /\ nearest_nodes(enriched, argv.destination.longitude, argv.destination.latitude)
           \in ReachableFrom(enriched, {nearest_nodes(enriched, argv.origin.longitude,
                                                      argv.origin.latitude)})

\* C4: a malformed obstacle or preference payload never aborts the request:
\* it proceeds with the empty obstacle list, respectively the default
\* preferences, and returns a route whenever the graph holds one.
C4_MalformedPayloadNeverAborts ==
    (pc = "exited" /\ (MalformedObstacles \/ MalformedPreferences) /\ RouteExists) =>
        (exit_code = 0 /\ route # None)

\* the part of C4 the code keeps: text that is not JSON is replaced by the
\* empty list, respectively the empty dict
C4_NotJsonFallsBack ==
    pc # "start" =>
        /\ (argv.obstacles_json = NotJson => obstacles = PyList(<<>>))
        /\ (argv.preferences_json = NotJson => user_preferences = PyDict(<<>>))

AvoidStairsOf(prefs) == IF prefs.type = "dict" THEN Get(prefs.d, "avoidStairs", TRUE) ELSE TRUE

StairsEdges(g) == {e \in DOMAIN g : g[e].stairs = "yes"}

\* every way from the origin node to the destination node climbs a stairway
StairsOnEveryPath ==
    /\ Connected
    /\ \A p \in Paths(graph, OriginNode, DestNode) :
          \E i \in 1..(Len(p) - 1) :
              \A k \in Keys(graph, p[i], p[i + 1]) : <<p[i], p[i + 1], k>> \in StairsEdges(graph)

\* C7: with avoidStairs true or absent a stairs edge weighs length + length * 100
\* before the width, slope and obstacle penalties, with avoidStairs false it
\* weighs length before them; either way the weight is finite, and the route
\* over the stairs is returned when no other way exists.
C7_StairsPreference ==
    (calls = 1) =>
        /\ \A e \in StairsEdges(graph) :
              graph[e].weight
                  - WidthPenalty(MinimumWidthOf(user_preferences), before[e], before[e].length)
                  - SlopePenalty(MaxSlopeOf(user_preferences), before[e], before[e].length)
                  - (graph[e].obstacle_score - before[e].obstacle_score) * Unit
              = IF AvoidStairsOf(user_preferences)
                THEN (before[e].length + before[e].length * 100) * Unit
                ELSE before[e].length * Unit
        /\ (Searched /\ StairsOnEveryPath) =>
              /\ route # None /\ exit_code = 0
              /\ \E i \in 1..(Len(path) - 1) : <<path[i], path[i + 1], 0>> \in StairsEdges(graph)

C7_Witness ==
    /\ Searched /\ StairsOnEveryPath /\ route # None
    /\ AvoidStairsOf(user_preferences)
    /\ \E e \in StairsEdges(graph) : graph[e].weight = 1010 * Unit

C7_WitnessStairsAllowed ==
    /\ Searched /\ StairsOnEveryPath /\ route # None
    /\ ~AvoidStairsOf(user_preferences)
    /\ \E e \in StairsEdges(graph) : graph[e].weight = 10 * Unit

\* the parallel edges from u to v of the least weight: those the search went over
SearchedKeys(g, u, v) == {k \in Keys(g, u, v) : g[<<u, v, k>>].weight = HopWeight(g, u, v)}

\* the statistics of the path over one searched edge per hop
RECURSIVE SearchedStats(_, _)
SearchedStats(g, p) ==
    IF Len(p) <= 1 THEN {[route_length |-> 0, route_obstacles |-> FALSE]}
    ELSE {[route_length |-> g[<<p[1], p[2], k>>].length + rest.route_length,
           route_obstacles |-> \/ g[<<p[1], p[2], k>>].obstacle_score > 0
                               \/ g[<<p[1], p[2], k>>].original_obstacle_score > 0
                               \/ rest.route_obstacles] :
             k \in SearchedKeys(g, p[1], p[2]), rest \in SearchedStats(g, Tail(p))}

\* C9: the route statistics are those of the edges the search went over: for
\* every hop of the path, parallel edges included, the length and the obstacle
\* scores of the least-weight edge; and a path whose edges exist yields a route.
C9_StatsOfSearchedEdges ==
    (Searched /\ path # <<>>) =>
        /\ route # None
        /\ \E stats \in SearchedStats(graph, path) :
              /\ route_length = stats.route_length
              /\ route.hasObstacles = stats.route_obstacles

(***************************************************************************)
(* Claims about the width tag                                              *)
(***************************************************************************)
WithoutSuffix(s, suffix) == SubSeq(s, 1, Len(s) - Len(suffix))

\* the width the documentation gives the tag: the number before a cm suffix
\* divided by 100, the number before an m or meters suffix or without suffix,
\* and 2.0 for what is no such number
DocumentedWidth(width_tag) ==
    LET t == Strip(width_tag)
        suffix == IF EndsWith(t, S("cm")) THEN S("cm")
                  ELSE IF EndsWith(t, S("meters")) THEN S("meters")
                  ELSE IF EndsWith(t, S("m")) THEN S("m")
                  ELSE <<>>
        number == float(WithoutSuffix(t, suffix))
    IN  IF number = ValueError THEN DefaultWidth
        ELSE IF suffix = S("cm") THEN DivideBy100(number)
        ELSE number

\* C6: a width tag with suffix cm yields the number divided by 100 ("250cm"
\* gives 2.5), a tag with suffix m or meters or no suffix yields the number
\* ("2.5 m" gives 2.5), and a tag that cannot be parsed yields 2.0.
C6_WidthParsing == pc = "enriched" => width = DocumentedWidth(tag)

(***************************************************************************)
(* A sequence of calls on one graph instance                               *)
(***************************************************************************)
MaxCalls == 2

CallLists == {PyList(l) : l \in ListsUpTo({PyDict(o) : o \in ObstacleItems}, 1)}

CallPreferences ==
    {None, PyDict([avoidStairs |-> FALSE]), PyDict([maxSlope |-> 4, minimumWidth |-> 240])}

\* a further call on the graph instance the earlier calls returned
CalculateAgain == Calculate(CallLists, CallPreferences, MaxCalls)

NextCalls == CalculateAgain

SpecCalls == InitCalls /\ [][NextCalls]_vars

\* C10: after each call of a sequence of calls on the same graph instance,
\* every edge's weight, obstacle_score and original_obstacle_score are those
\* of a single call on the freshly enriched graph with that call's obstacles
\* and preferences; original_obstacle_score is the enrichment score.
C10_RequestIsolation ==
    calls > 0 => graph = calculate_obstacle_weights(enriched, obstacles, user_preferences)

\* the part of C10 the code keeps: the weight of every edge is that of a
\* single call on the freshly enriched graph
C10_WeightIsolated ==
    calls > 0 =>
        \A e \in DOMAIN graph :
            graph[e].weight
                = calculate_obstacle_weights(enriched, obstacles, user_preferences)[e].weight

(***************************************************************************)
(* The formatting of a route of a given length                             *)
(***************************************************************************)
MaxRouteLength == 11000

InitDuration ==
    /\ pc = "searched"
    /\ route_length \in 0..MaxRouteLength
    /\ path = <<1>>
    /\ route = None
    /\ tag = <<>> /\ width = DefaultWidth
    /\ graph = <<>> /\ enriched = <<>> /\ before = <<>>
    /\ obstacles = None /\ user_preferences = None /\ calls = 0
    /\ argv = None /\ exit_code = -1

\* find_accessible_route, lines 182-214, on a path of that length
FormatRoute ==
    /\ pc = "searched"
    /\ route' = RouteResult([i \in 1..Len(path) |-> Point(NodeY(path[i]), NodeX(path[i]))],
                            route_length, FALSE)
    /\ pc' = "formatted"
    /\ UNCHANGED <<tag, width, graph, enriched, before, obstacles, user_preferences, calls,
                   argv, route_length, path, exit_code>>

NextDuration == FormatRoute

SpecDuration == InitDuration /\ [][NextDuration]_vars

\* the minutes of the route: the least whole number of minutes in which
\* route_length metres are walked at 1.4 m/s
MinutesOf(length) ==
    CHOOSE m \in 0..length : m * 60 * 14 >= length * 10 /\ (m - 1) * 60 * 14 < length * 10

\* C8: minutes = ceiling((length / 1.4) / 60); the duration is "<m> mins" under
\* 60 minutes and "<h> hours <m> mins" with h = minutes div 60 and
\* m = minutes mod 60 from 60 minutes on (1400 m gives "17 mins", 59 minutes
\* "59 mins", 60 minutes "1 hours 0 mins"); the step has the duration of the route.
C8_Duration ==
    pc = "formatted" =>
        LET minutes == MinutesOf(route_length)
        IN  /\ route.duration =
                   IF minutes < 60 THEN ToString(minutes) \o " mins"
                   ELSE ToString(minutes \div 60) \o " hours " \o ToString(minutes % 60) \o " mins"
            /\ (route_length = 1400 => route.duration = "17 mins")
            /\ (minutes = 59 => route.duration = "59 mins")
            /\ (minutes = 60 => route.duration = "1 hours 0 mins")
            /\ Len(route.steps) = 1
            /\ route.steps[1].duration = route.duration

C8_Witness ==
    /\ pc = "formatted"
    /\ route_length = 5000
    /\ route.duration = "1 hours 0 mins"
    /\ route.steps[1].duration = "1 hours 0 mins"

====
